---- MODULE Spec2Model ----
(***************************************************************************)
(* Vdb_to_Text (src/src/main.rs): a batch driver walks a source directory, *)
(* and for every entry with extension "vdb" runs parse_vdb_file, inline or *)
(* as a task of a rayon scope.  parse_vdb_file lists the grids of the file *)
(* and writes one CSV artifact per grid name.                              *)
(*                                                                         *)
(* Strings are sequences of one-character strings; a path is a sequence of *)
(* components, each a string.  A CSV row is a sequence of fields.          *)
(***************************************************************************)
EXTENDS Integers, Sequences, FiniteSets, TLC

\* ------------------------------------------------------------------ bounds
\* Number of directory entries the walk yields after the root entry.
MaxWalk == 2
\* Longest grid list a source file holds.
MaxGrids == 2
\* Most voxel entries one grid yields.
MaxVoxels == 2
\* Rows the csv writer's buffer holds before a write has to flush it (the
\* buffer's capacity, counted in rows).
BufRows == 1
\* Most I/O operations that fail in one run.
MaxFaults == 2
\* Number of entries below the root in the trees walked with and without
\* --recursive.
MaxTree == 3

\* ------------------------------------------------------------- std: Option
None == [some |-> FALSE, val |-> <<>>]
Some(v) == [some |-> TRUE, val |-> v]

\* ------------------------------------------------------------ std: strings
S_vdb == <<"v", "d", "b">>
S_csv == <<"c", "s", "v">>
S_dot == <<".">>

Digit(d) == CASE d = 0 -> "0" [] d = 1 -> "1" [] d = 2 -> "2" [] d = 3 -> "3"
              [] d = 4 -> "4" [] d = 5 -> "5" [] d = 6 -> "6" [] d = 7 -> "7"
              [] d = 8 -> "8" [] d = 9 -> "9"

RECURSIVE NatToString(_)
NatToString(n) == IF n < 10 THEN <<Digit(n)>>
                  ELSE NatToString(n \div 10) \o <<Digit(n % 10)>>

\* i32::to_string / usize::to_string: decimal digits, "-" before a negative.
to_string(n) == IF n < 0 THEN <<"-">> \o NatToString(-n) ELSE NatToString(n)

\* Positions of "." in a string.
Dots(s) == {k \in 1..Len(s) : s[k] = "."}
LastDot(s) == CHOOSE k \in Dots(s) : \A m \in Dots(s) : m <= k

\* ---------------------------------------------------------- std::path::Path
\* Path::extension: None without a file name, without a ".", or when the only
\* "." is the first character; otherwise what follows the last ".".
Extension(p) ==
    IF Len(p) = 0 THEN None
    ELSE LET n == p[Len(p)] IN
         IF Dots(n) \ {1} = {} THEN None
         ELSE Some(SubSeq(n, LastDot(n) + 1, Len(n)))

\* Path::file_stem: the file name without its extension.
FileStem(p) ==
    IF Len(p) = 0 THEN None
    ELSE LET n == p[Len(p)] IN
         IF Dots(n) \ {1} = {} THEN Some(n)
         ELSE Some(SubSeq(n, 1, LastDot(n) - 1))

\* Path::with_extension: the stem, then "." and the new extension; a path
\* without a file name is returned as it is.
WithExtension(p, ext) ==
    IF ~FileStem(p).some THEN p
    ELSE [p EXCEPT ![Len(p)] =
              FileStem(p).val \o (IF ext = <<>> THEN <<>> ELSE S_dot \o ext)]

\* Path::parent: None for the empty path.
Parent(p) == IF Len(p) = 0 THEN None ELSE Some(SubSeq(p, 1, Len(p) - 1))

\* Path::strip_prefix: Err unless base is a prefix of p, component-wise.
StripPrefix(p, base) ==
    IF Len(base) <= Len(p) /\ SubSeq(p, 1, Len(base)) = base
    THEN Some(SubSeq(p, Len(base) + 1, Len(p)))
    ELSE None

\* Path::join with a relative path.
Join(base, rel) == base \o rel

\* --------------------------------------------------------------- std: misc
Min(a, b) == IF a < b THEN a ELSE b
Max(a, b) == IF a < b THEN b ELSE a
Range(s) == {s[k] : k \in 1..Len(s)}

\* All sequences over S of length at most n.
RECURSIVE SeqsUpTo(_, _)
SeqsUpTo(S, n) ==
    IF n = 0 THEN {<<>>}
    ELSE LET T == SeqsUpTo(S, n - 1)
         IN  T \cup {Append(t, e) : t \in {u \in T : Len(u) = n - 1}, e \in S}

\* ------------------------------------------------------------ decoder (vdb_rs)
\* Level::scale as the code casts it to i32: the side length of the region.
Scale(level) == CASE level = "Leaf" -> 1 [] level = "Node4" -> 8 [] level = "Node5" -> 128

LevelOf(k) == CASE k % 3 = 1 -> "Leaf" [] k % 3 = 2 -> "Node4" [] k % 3 = 0 -> "Node5"

\* The k-th entry the decoder yields for a grid of the file at path p: the
\* position and the value are counted in halves (x2 = 3 is 1.5).
VoxelEntry(p, k) ==
    LET b == Len(p[Len(p)])
    IN  [x2 |-> 2 * k + 1, y2 |-> -(2 * k + 1), z2 |-> 2 * b,
         level |-> LevelOf(k), v2 |-> IF k % 2 = 1 THEN -(b + k) ELSE b + k]

\* How many entries the grid named name yields.
NumVoxels(name) ==
    IF name = <<"1">> THEN 0
    ELSE IF Len(name) > 1 THEN Min(1, MaxVoxels)
    ELSE MaxVoxels

\* grid.iter(): the entries of the grid named name of the file at p, in the
\* decoder's order.
GridIter(p, name) == [k \in 1..NumVoxels(name) |-> VoxelEntry(p, k)]

\* ------------------------------------------------------------- row mapping
\* `f as i32`: truncation toward zero, saturating at the i32 range.
AsI32(h2) ==
    LET t == IF h2 < 0 THEN -((-h2) \div 2) ELSE h2 \div 2
    IN  Max(-2147483647 - 1, Min(2147483647, t))

\* f16::to_string for a value counted in halves: "-1.5", "0.5", "2".
F16ToString(v2) ==
    LET a == IF v2 < 0 THEN -v2 ELSE v2
    IN  (IF v2 < 0 THEN <<"-">> ELSE <<>>) \o NatToString(a \div 2)
        \o (IF a % 2 = 1 THEN <<".", "5">> ELSE <<>>)

\* main.rs:75: the header record.
Header == << <<"x">>, <<"y">>, <<"z">>, <<"s", "p", "a", "n">>,
             <<"v", "a", "l", "u", "e">> >>

\* main.rs:81-88: the record written for one (position, voxel, level).
Row(e) == << to_string(AsI32(e.x2)), to_string(AsI32(e.y2)), to_string(AsI32(e.z2)),
             to_string(Scale(e.level)), F16ToString(e.v2) >>

\* ------------------------------------------------------------------ inputs
S_in == <<"i", "n">>
S_out == <<"o", "u", "t">>
S_alt == <<"a", "l", "t">>
S_d == <<"d">>
S_1 == <<"1">>
S_1d == <<"1", ".", "d">>
F_x == <<"x">> \o S_dot \o S_vdb
F_x1 == <<"x">> \o S_dot \o S_1 \o S_dot \o S_vdb

\* The command lines considered (struct Args): the directory in exported to
\* out, and the single file x.vdb given as the source, exported to out or to
\* the empty path.
ArgsSet ==
    [source_directory : {<<S_in>>}, output_directory : {<<S_out>>},
     recursive : {FALSE}, multithreading : BOOLEAN]
    \cup [source_directory : {<<F_x>>}, output_directory : {<<S_out>>, <<>>},
          recursive : {FALSE}, multithreading : BOOLEAN]

\* The name of the k-th grid of the source file named f: x.vdb holds "1",
\* "1.d", "1", ...; x.1.vdb holds "d", "d", ...
GridName(f, k) == IF f = F_x THEN (IF k % 2 = 1 THEN S_1 ELSE S_1d) ELSE S_d

ErrEntry == [ok |-> FALSE, path |-> <<>>, grids |-> <<>>, is_dir |-> FALSE]
DirEntry(p, g) == [ok |-> TRUE, path |-> p, grids |-> g, is_dir |-> FALSE]

\* A directory the walk yields: opening it works, reading from it fails.
Directory(p) == [ok |-> TRUE, path |-> p, grids |-> <<>>, is_dir |-> TRUE]

\* The grid list of a file named f that holds n grids.
GridList(f, n) == [k \in 1..n |-> GridName(f, k)]

\* What WalkDir may yield below the root src: Ok entries (a path, and for a
\* vdb file the grid list it holds, of MaxGrids grids), an entry whose path
\* is not below src, and Err.
Children(src) ==
    {DirEntry(Append(src, f), GridList(f, MaxGrids)) : f \in {F_x, F_x1}}
    \cup {DirEntry(<<S_alt, F_x>>, <<>>), ErrEntry}

\* The walks considered. WalkDir yields the root first. Below a directory
\* it then yields at most MaxWalk children, no path twice; a root that is a
\* file (holding any number of grids up to MaxGrids) is all the walk yields.
Walks(src) ==
    IF src = <<S_in>>
    THEN {<<Directory(src)>> \o w : w \in
            {v \in SeqsUpTo(Children(src), MaxWalk) :
                \A a, b \in 1..Len(v) :
                    (a # b /\ v[a].ok /\ v[b].ok) => v[a].path # v[b].path}}
    ELSE {<<DirEntry(src, GridList(F_x, n))>> : n \in 0..MaxGrids}

S_csvname == <<"x">> \o S_dot \o S_csv

\* The command lines of the walks below: recursive or not, both dispatch modes.
ArgsWalk ==
    [source_directory : {<<S_in>>}, output_directory : {<<S_out>>},
     recursive : BOOLEAN, multithreading : BOOLEAN]

\* What lies below the root in the walks below: the file x.vdb holding one
\* grid, the file x.csv, a directory named x.1.vdb, the directory d and in
\* it the file d/x.vdb holding one grid, and Err.
ChildrenWalk(src) ==
    {DirEntry(Append(src, F_x), GridList(F_x, 1)),
     DirEntry(Append(src, S_csvname), <<>>),
     Directory(Append(src, F_x1)),
     Directory(Append(src, S_d)),
     DirEntry(src \o <<S_d, F_x>>, GridList(F_x, 1)),
     ErrEntry}

\* Trees of at most MaxTree entries below the root, no path twice, a file of
\* the directory d right after d (WalkDir yields a directory, then its content).
TreesWalk(src) ==
    {<<Directory(src)>> \o w : w \in
        {v \in SeqsUpTo(ChildrenWalk(src), MaxTree) :
            /\ \A a, b \in 1..Len(v) :
                    (a # b /\ v[a].ok /\ v[b].ok) => v[a].path # v[b].path
            /\ \A a \in 1..Len(v) :
                    (v[a].ok /\ Len(v[a].path) > Len(src) + 1)
                        => (a > 1 /\ v[a - 1] = Directory(src \o <<S_d>>))}}

\* Depth of an entry below the root src (walkdir::DirEntry::depth); an Err
\* is about a child of the root.
Depth(e, src) == IF e.ok THEN Len(e.path) - Len(src) ELSE 1

\* main.rs:107-111: the walker: max_depth(1) unless recursive.
walker(t, a) ==
    LET max_depth == IF ~a.recursive THEN 1 ELSE Len(t) + 1
    IN  SelectSeq(t, LAMBDA e : Depth(e, a.source_directory) <= max_depth)

\* -------------------------------------------------------------------- state
VARIABLES
    args,        \* the parsed command line
    tree,        \* the root and everything below it, in WalkDir's order
    walk,        \* what the walker yields, in order
    wi,          \* index of the next item of walk
    mainpc,      \* "walk", "job" (a job runs inline), "join", "exit_ok", "exit_panic"
    scope_panic, \* a panic the rayon scope holds until it ends
    werrs,       \* errors the walk loop has logged
    job,         \* per walk item: the state of its parse_vdb_file job
    files,       \* output files: path -> rows on disk
    dirs,        \* output directories that exist
    faults       \* I/O failures that may still happen

vars == <<args, tree, walk, wi, mainpc, scope_panic, werrs, job, files, dirs, faults>>

NoWriter == [open |-> FALSE, path |-> <<>>, buf |-> <<>>, pos |-> 0]

\* A job before its candidate is dispatched.
NoJob ==
    [pc |-> "none", output_path |-> <<>>, grid_names |-> <<>>, i |-> 0,
     rd |-> "none", opens |-> 0, wtr |-> NoWriter, it |-> <<>>,
     errs |-> {}, panic |-> "", ncreate |-> 0, arts |-> <<>>, lost |-> FALSE]

Jobs == 1..Len(walk)
Active == {"strip", "mkdir", "list", "names", "open", "create", "fallback",
           "header", "read", "row"}
Terminal == {"done", "aborted", "skipped", "panicked"}

source_dir == args.source_directory
output_dir == args.output_directory
source_path(j) == walk[j].path

\* ---------------------------------------------------------------- the disk
\* File::create: the file exists and is empty afterwards.
Created(fs, p) == [q \in DOMAIN fs \cup {p} |-> IF q = p THEN <<>> ELSE fs[q]]

\* What a hole left by a write past the end of a file reads as.
Hole == <<>>

\* write_all at row offset pos of the file content c.
Overlay(c, pos, rows) ==
    [k \in 1..Max(Len(c), pos + Len(rows)) |->
        IF k > pos /\ k <= pos + Len(rows) THEN rows[k - pos]
        ELSE IF k <= Len(c) THEN c[k] ELSE Hole]

\* csv::Writer::flush_buf of writer w, when the write succeeds.
Flushed(fs, w) == [fs EXCEPT ![w.path] = Overlay(fs[w.path], w.pos, w.buf)]
AfterFlush(w) == [w EXCEPT !.buf = <<>>, !.pos = w.pos + Len(w.buf)]

\* create_dir_all(d): d and every ancestor of d exist afterwards.
WithDirs(ds, d) == ds \cup {SubSeq(d, 1, k) : k \in 0..Len(d)}

\* Outcomes an I/O operation may have: failure only while faults remain.
Outcomes == IF faults > 0 THEN BOOLEAN ELSE {TRUE}

\* ----------------------------------------------------------------- main
Init ==
    /\ args \in ArgsSet
    /\ tree \in Walks(args.source_directory)
    /\ walk = walker(tree, args)
    /\ wi = 1
    /\ mainpc = "walk"
    /\ scope_panic = FALSE
    /\ werrs = 0
    /\ job = [j \in 1..Len(walk) |-> NoJob]
    /\ files = <<>>
    /\ dirs = {}
    /\ faults = MaxFaults

\* The runs over the trees of TreesWalk, with and without --recursive.
InitWalk ==
    /\ args \in ArgsWalk
    /\ tree \in TreesWalk(args.source_directory)
    /\ walk = walker(tree, args)
    /\ wi = 1
    /\ mainpc = "walk"
    /\ scope_panic = FALSE
    /\ werrs = 0
    /\ job = [j \in 1..Len(walk) |-> NoJob]
    /\ files = <<>>
    /\ dirs = {}
    /\ faults = MaxFaults

\* main.rs:117-118: the entry is a candidate.
IsCandidate(e) == e.ok /\ Extension(e.path).some /\ Extension(e.path).val = S_vdb

\* WalkErr with the slip of leaving the loop on the first Err.
WalkErr_stop ==
    /\ mainpc = "walk" /\ wi <= Len(walk)
    /\ ~walk[wi].ok
    /\ werrs' = werrs + 1
    /\ wi' = wi + 1
    /\ mainpc' = "join"
    /\ UNCHANGED <<args, tree, walk, scope_panic, job, files, dirs, faults>>

\* main.rs:159: the walk yields Err: logged, the loop goes on.
WalkErr ==
    /\ mainpc = "walk" /\ wi <= Len(walk)
    /\ ~walk[wi].ok
    /\ werrs' = werrs + 1
    /\ wi' = wi + 1
    /\ UNCHANGED <<args, tree, walk, mainpc, scope_panic, job, files, dirs, faults>>

\* main.rs:117-118: an entry without the extension vdb: nothing is done.
WalkSkip ==
    /\ mainpc = "walk" /\ wi <= Len(walk)
    /\ walk[wi].ok /\ ~IsCandidate(walk[wi])
    /\ wi' = wi + 1
    /\ UNCHANGED <<args, tree, walk, mainpc, scope_panic, werrs, job, files, dirs, faults>>

\* main.rs:119-137: scope.spawn: the task is queued, the loop goes on.
WalkSpawn ==
    /\ mainpc = "walk" /\ wi <= Len(walk)
    /\ IsCandidate(walk[wi]) /\ args.multithreading
    /\ job' = [job EXCEPT ![wi].pc = "strip"]
    /\ wi' = wi + 1
    /\ UNCHANGED <<args, tree, walk, mainpc, scope_panic, werrs, files, dirs, faults>>

\* WalkInline with the slip of a loop that goes on while the job runs.
WalkInline_no_wait ==
    /\ mainpc = "walk" /\ wi <= Len(walk)
    /\ IsCandidate(walk[wi]) /\ ~args.multithreading
    /\ job' = [job EXCEPT ![wi].pc = "strip"]
    /\ wi' = wi + 1
    /\ UNCHANGED <<args, tree, walk, mainpc, scope_panic, werrs, files, dirs, faults>>

\* main.rs:138-155: the job runs inline; the loop waits for it.
WalkInline ==
    /\ mainpc = "walk" /\ wi <= Len(walk)
    /\ IsCandidate(walk[wi]) /\ ~args.multithreading
    /\ job' = [job EXCEPT ![wi].pc = "strip"]
    /\ wi' = wi + 1
    /\ mainpc' = "job"
    /\ UNCHANGED <<args, tree, walk, scope_panic, werrs, files, dirs, faults>>

\* main.rs:114,162: the walker is exhausted: the scope's closure returns.
WalkEnd ==
    /\ mainpc = "walk" /\ wi > Len(walk)
    /\ mainpc' = "join"
    /\ UNCHANGED <<args, tree, walk, wi, scope_panic, werrs, job, files, dirs, faults>>

\* ScopeEnd with the slip of tasks spawned on the global pool, which the
\* end of the scope does not wait for.
ScopeEnd_no_wait ==
    /\ mainpc = "join"
    /\ mainpc' = IF scope_panic THEN "exit_panic" ELSE "exit_ok"
    /\ UNCHANGED <<args, tree, walk, wi, scope_panic, werrs, job, files, dirs, faults>>

\* main.rs:113,162-163: rayon::scope returns once every spawned task has
\* ended, and resumes a panic it holds; main then returns.
ScopeEnd ==
    /\ mainpc = "join"
    /\ \A j \in Jobs : job[j].pc \notin Active
    /\ mainpc' = IF scope_panic THEN "exit_panic" ELSE "exit_ok"
    /\ UNCHANGED <<args, tree, walk, wi, scope_panic, werrs, job, files, dirs, faults>>

\* Where main is after a job step: "return" leaves parse_vdb_file,
\* "closure_return" is the `return` of main.rs:128/146, "panic" an unwrap on Err.
MainAfter(kind) ==
    IF args.multithreading \/ kind = "step" THEN mainpc
    ELSE IF kind = "return" THEN "walk" ELSE "join"

\* ------------------------------------------------------- parse_vdb_file
\* main.rs:61: the primary output file of grid i.
csv_filename(j) ==
    WithExtension(job[j].output_path, job[j].grid_names[job[j].i + 1] \o S_dot \o S_csv)

\* alternative_csv_filename with the slip of counting the index from one.
alternative_csv_filename_from_one(j) ==
    WithExtension(job[j].output_path, to_string(job[j].i + 1) \o S_dot \o S_csv)

\* main.rs:67: the fallback output file of grid i.
alternative_csv_filename(j) ==
    WithExtension(job[j].output_path, to_string(job[j].i) \o S_dot \o S_csv)

\* Panicked with the slip of handles that are not owned by the unwinding
\* stack: reader and writer stay open and the buffer is not flushed.
Panicked_leak(j, tag, flush_ok) ==
    /\ job' = [job EXCEPT ![j].pc = "panicked", ![j].panic = tag, ![j].it = <<>>]
    /\ files' = files
    /\ scope_panic' = TRUE
    /\ mainpc' = MainAfter("panic")

\* An unwrap on Err in job j: the stack unwinds, the reader is dropped, the
\* writer is dropped (its Drop flushes, ignoring an error: flush_ok), and
\* the scope keeps the panic.
Panicked(j, tag, flush_ok) ==
    LET w == job[j].wtr IN
    /\ job' = [job EXCEPT ![j].pc = "panicked", ![j].panic = tag,
                          ![j].rd = "none", ![j].wtr = NoWriter, ![j].it = <<>>,
                          ![j].lost = @ \/ (w.open /\ ~flush_ok)]
    /\ files' = IF w.open /\ flush_ok THEN Flushed(files, w) ELSE files
    /\ scope_panic' = TRUE
    /\ mainpc' = MainAfter("panic")

\* Outcomes of the flush a dropped writer makes.
DropOutcomes(j, spent) ==
    IF job[j].wtr.open /\ faults - spent > 0 THEN BOOLEAN ELSE {TRUE}

\* main.rs:124-134 / 142-152: strip_prefix, then the output path.
StripPrefixStep(j) ==
    /\ job[j].pc = "strip"
    /\ LET local_pos == StripPrefix(source_path(j), source_dir) IN
       IF local_pos.some
       THEN /\ job' = [job EXCEPT ![j].pc = "mkdir",
                                  ![j].output_path = Join(output_dir, local_pos.val)]
            /\ mainpc' = mainpc
       ELSE /\ job' = [job EXCEPT ![j].pc = "skipped",
                                  ![j].errs = @ \cup {<<"strip_prefix", 0>>}]
            /\ mainpc' = MainAfter("closure_return")
    /\ UNCHANGED <<args, tree, walk, wi, scope_panic, werrs, files, dirs, faults>>

\* EnsureDir with the slip of an Err arm of create_dir_all that logs and does
\* not return.
EnsureDir_no_return(j) ==
    /\ job[j].pc = "mkdir"
    /\ LET parent == Parent(job[j].output_path) IN
       IF ~parent.some
       THEN /\ job' = [job EXCEPT ![j].pc = "aborted",
                                  ![j].errs = @ \cup {<<"no_parent", 0>>}]
            /\ mainpc' = MainAfter("return")
            /\ UNCHANGED <<dirs, faults>>
       ELSE \E ok \in Outcomes :
            /\ dirs' = IF ok THEN WithDirs(dirs, parent.val) ELSE dirs
            /\ job' = [job EXCEPT ![j].pc = "list",
                          ![j].errs = IF ok THEN @ ELSE @ \cup {<<"create_dir_all", 0>>}]
            /\ faults' = IF ok THEN faults ELSE faults - 1
            /\ UNCHANGED mainpc
    /\ UNCHANGED <<args, tree, walk, wi, scope_panic, werrs, files>>

\* main.rs:31-43: make sure the output directory exists.
EnsureDir(j) ==
    /\ job[j].pc = "mkdir"
    /\ LET parent == Parent(job[j].output_path) IN
       IF ~parent.some
       THEN /\ job' = [job EXCEPT ![j].pc = "aborted",
                                  ![j].errs = @ \cup {<<"no_parent", 0>>}]
            /\ mainpc' = MainAfter("return")
            /\ UNCHANGED <<dirs, faults>>
       ELSE \E ok \in Outcomes :
            IF ok
            THEN /\ dirs' = WithDirs(dirs, parent.val)
                 /\ job' = [job EXCEPT ![j].pc = "list"]
                 /\ UNCHANGED <<mainpc, faults>>
            ELSE /\ job' = [job EXCEPT ![j].pc = "aborted",
                                       ![j].errs = @ \cup {<<"create_dir_all", 0>>}]
                 /\ mainpc' = MainAfter("return")
                 /\ faults' = faults - 1
                 /\ UNCHANGED dirs
    /\ UNCHANGED <<args, tree, walk, wi, scope_panic, werrs, files>>

\* The loop head of main.rs:54 after grid_names is known or a grid is done.
NextGrid(jb, i) ==
    IF i < Len(jb.grid_names)
    THEN [jb EXCEPT !.i = i, !.pc = "open", !.ncreate = 0]
    ELSE [jb EXCEPT !.i = i, !.pc = "done"]

\* main.rs:47: File::open for the grid-listing pass.
OpenForList(j) ==
    /\ job[j].pc = "list"
    /\ \E ok \in Outcomes :
       IF ok
       THEN /\ job' = [job EXCEPT ![j].pc = "names", ![j].rd = "list",
                                  ![j].opens = @ + 1]
            /\ UNCHANGED <<files, scope_panic, mainpc, faults>>
       ELSE /\ Panicked(j, "list_open", TRUE)
            /\ faults' = faults - 1
    /\ UNCHANGED <<args, tree, walk, wi, werrs, dirs>>

\* main.rs:48-50: VdbReader::new and available_grids; the handle is dropped.
\* Reading from a directory fails, whatever faults remain.
ListGrids(j) ==
    /\ job[j].pc = "names"
    /\ \E ok \in (IF walk[j].is_dir THEN {FALSE} ELSE Outcomes) :
       IF ok
       THEN /\ job' = [job EXCEPT ![j] =
                   NextGrid([job[j] EXCEPT !.grid_names = walk[j].grids,
                                           !.rd = "none"], 0)]
            /\ mainpc' = IF Len(walk[j].grids) = 0 THEN MainAfter("return") ELSE mainpc
            /\ UNCHANGED <<files, scope_panic, faults>>
       ELSE /\ Panicked(j, "list_parse", TRUE)
            /\ faults' = IF walk[j].is_dir THEN faults ELSE faults - 1
    /\ UNCHANGED <<args, tree, walk, wi, werrs, dirs>>

\* OpenGrid with the slip of reading every grid through one handle that is
\* kept from grid to grid instead of opened anew.
OpenGrid_reuse(j) ==
    /\ job[j].pc = "open"
    /\ \E ok \in Outcomes :
       IF ok
       THEN /\ job' = [job EXCEPT ![j].pc = "create", ![j].rd = "grid",
                                  ![j].opens = IF job[j].i = 0 THEN @ + 1 ELSE @]
            /\ UNCHANGED <<files, scope_panic, mainpc, faults>>
       ELSE /\ Panicked(j, "grid_open", TRUE)
            /\ faults' = faults - 1
    /\ UNCHANGED <<args, tree, walk, wi, werrs, dirs>>

\* main.rs:56-58: File::open and VdbReader::new for grid i.
OpenGrid(j) ==
    /\ job[j].pc = "open"
    /\ \E ok \in Outcomes :
       IF ok
       THEN /\ job' = [job EXCEPT ![j].pc = "create", ![j].rd = "grid",
                                  ![j].opens = @ + 1]
            /\ UNCHANGED <<files, scope_panic, mainpc, faults>>
       ELSE /\ Panicked(j, "grid_open", TRUE)
            /\ faults' = faults - 1
    /\ UNCHANGED <<args, tree, walk, wi, werrs, dirs>>

\* main.rs:61-66: Writer::from_path on the primary name; on Err the error is
\* logged and the fallback is next.
CreateWriter(j) ==
    /\ job[j].pc = "create"
    /\ \E ok \in Outcomes :
       IF ok
       THEN /\ files' = Created(files, csv_filename(j))
            /\ job' = [job EXCEPT ![j].pc = "header", ![j].ncreate = @ + 1,
                           ![j].arts = Append(@, csv_filename(j)),
                           ![j].wtr = [open |-> TRUE, path |-> csv_filename(j),
                                       buf |-> <<>>, pos |-> 0]]
            /\ UNCHANGED faults
       ELSE /\ job' = [job EXCEPT ![j].pc = "fallback", ![j].ncreate = @ + 1,
                           ![j].errs = @ \cup {<<"create", job[j].i>>}]
            /\ faults' = faults - 1
            /\ UNCHANGED files
    /\ UNCHANGED <<args, tree, walk, wi, mainpc, scope_panic, werrs, dirs>>

\* CreateFallback with the slip of writing the header in the Ok arm of the
\* primary creation only.
CreateFallback_no_header(j) ==
    /\ job[j].pc = "fallback"
    /\ \E ok \in Outcomes :
       IF ok
       THEN /\ files' = Created(files, alternative_csv_filename(j))
            /\ job' = [job EXCEPT ![j].pc = "read", ![j].ncreate = @ + 1,
                           ![j].arts = Append(@, alternative_csv_filename(j)),
                           ![j].wtr = [open |-> TRUE, path |-> alternative_csv_filename(j),
                                       buf |-> <<>>, pos |-> 0]]
            /\ UNCHANGED <<scope_panic, mainpc, faults>>
       ELSE /\ Panicked(j, "create_fallback", TRUE)
            /\ faults' = faults - 1
    /\ UNCHANGED <<args, tree, walk, wi, werrs, dirs>>

\* main.rs:67-72: Writer::from_path on the fallback name, unwrapped.
CreateFallback(j) ==
    /\ job[j].pc = "fallback"
    /\ \E ok \in Outcomes :
       IF ok
       THEN /\ files' = Created(files, alternative_csv_filename(j))
            /\ job' = [job EXCEPT ![j].pc = "header", ![j].ncreate = @ + 1,
                           ![j].arts = Append(@, alternative_csv_filename(j)),
                           ![j].wtr = [open |-> TRUE, path |-> alternative_csv_filename(j),
                                       buf |-> <<>>, pos |-> 0]]
            /\ UNCHANGED <<scope_panic, mainpc, faults>>
       ELSE /\ Panicked(j, "create_fallback", TRUE)
            /\ faults' = faults - 1
    /\ UNCHANGED <<args, tree, walk, wi, werrs, dirs>>

\* csv::Writer::write_record(rec) on job j's writer, then pc = next: a full
\* buffer is flushed first, and a failed flush is the Err the code unwraps.
WriteRecord(j, rec, next, rest) ==
    LET w == job[j].wtr IN
    IF Len(w.buf) < BufRows
    THEN /\ job' = [job EXCEPT ![j].pc = next, ![j].it = rest,
                               ![j].wtr.buf = Append(@, rec)]
         /\ UNCHANGED <<files, scope_panic, mainpc, faults>>
    ELSE \E ok \in Outcomes :
         IF ok
         THEN /\ files' = Flushed(files, w)
              /\ job' = [job EXCEPT ![j].pc = next, ![j].it = rest,
                                    ![j].wtr = [AfterFlush(w) EXCEPT !.buf = <<rec>>]]
              /\ UNCHANGED <<scope_panic, mainpc, faults>>
         ELSE \E fl \in DropOutcomes(j, 1) :
              /\ Panicked(j, "write", fl)
              /\ faults' = faults - (IF fl THEN 1 ELSE 2)

\* main.rs:75-76: the header record.
WriteHeader(j) ==
    /\ job[j].pc = "header"
    /\ WriteRecord(j, Header, "read", <<>>)
    /\ UNCHANGED <<args, tree, walk, wi, werrs, dirs>>

\* main.rs:79: read_grid for the grid name, unwrapped.
ReadGrid(j) ==
    /\ job[j].pc = "read"
    /\ \E ok \in Outcomes :
       IF ok
       THEN /\ job' = [job EXCEPT ![j].pc = "row",
                          ![j].it = GridIter(source_path(j), job[j].grid_names[job[j].i + 1])]
            /\ UNCHANGED <<files, scope_panic, mainpc, faults>>
       ELSE \E fl \in DropOutcomes(j, 1) :
            /\ Panicked(j, "read_grid", fl)
            /\ faults' = faults - (IF fl THEN 1 ELSE 2)
    /\ UNCHANGED <<args, tree, walk, wi, werrs, dirs>>

\* main.rs:80-90: one pass of the row loop.
WriteRow(j) ==
    /\ job[j].pc = "row" /\ job[j].it # <<>>
    /\ WriteRecord(j, Row(Head(job[j].it)), "row", Tail(job[j].it))
    /\ UNCHANGED <<args, tree, walk, wi, werrs, dirs>>

\* EndGrid with the slip of a writer that outlives the loop body: its
\* buffer is not flushed and it stays open when the next grid begins.
EndGrid_keep_writer(j) ==
    /\ job[j].pc = "row" /\ job[j].it = <<>>
    /\ job' = [job EXCEPT ![j] =
                  NextGrid([job[j] EXCEPT !.rd = "none"], job[j].i + 1)]
    /\ mainpc' = IF job[j].i + 1 < Len(job[j].grid_names) THEN mainpc ELSE MainAfter("return")
    /\ UNCHANGED <<args, tree, walk, wi, scope_panic, werrs, dirs, files, faults>>

\* main.rs:91: the end of the loop body: the writer is dropped (its Drop
\* flushes and ignores an error) and the reader is dropped; then the next
\* grid, or the function returns.
EndGrid(j) ==
    /\ job[j].pc = "row" /\ job[j].it = <<>>
    /\ \E ok \in Outcomes :
       /\ files' = IF ok THEN Flushed(files, job[j].wtr) ELSE files
       /\ faults' = IF ok THEN faults ELSE faults - 1
       /\ job' = [job EXCEPT ![j] =
                     NextGrid([job[j] EXCEPT !.wtr = NoWriter, !.rd = "none",
                                             !.lost = @ \/ ~ok], job[j].i + 1)]
    /\ mainpc' = IF job[j].i + 1 < Len(job[j].grid_names) THEN mainpc ELSE MainAfter("return")
    /\ UNCHANGED <<args, tree, walk, wi, scope_panic, werrs, dirs>>

parse_vdb_file(j) ==
    \/ EnsureDir(j)
    \/ OpenForList(j)
    \/ ListGrids(j)
    \/ OpenGrid(j)
    \/ CreateWriter(j)
    \/ CreateFallback(j)
    \/ WriteHeader(j)
    \/ ReadGrid(j)
    \/ WriteRow(j)
    \/ EndGrid(j)

Next ==
    \/ WalkErr
    \/ WalkSkip
    \/ WalkSpawn
    \/ WalkInline
    \/ WalkEnd
    \/ ScopeEnd
    \/ \E j \in Jobs : StripPrefixStep(j)
    \/ \E j \in Jobs : parse_vdb_file(j)

Spec == Init /\ [][Next]_vars

SpecWalk == InitWalk /\ [][Next]_vars

\* The main thread and the threads of rayon's pool are scheduled by the
\* operating system and none of their steps blocks on anything but the end
\* of the scope: while some step of the program can be taken, one is taken.
FairSpec == Spec /\ WF_vars(Next)

\* ------------------------------------------------------------------ claims
Exited == mainpc \in {"exit_ok", "exit_panic"}
Candidates == {j \in Jobs : IsCandidate(walk[j])}
ListFailure == {"list_open", "list_parse"}
PerGridFailure == {"grid_open", "read_grid", "write"}

\* The records the writer of job j is to receive for the grid at index a - 1.
ExpectedStream(j, a) ==
    LET g == GridIter(source_path(j), walk[j].grids[a])
    IN  <<Header>> \o [k \in 1..Len(g) |-> Row(g[k])]

\* The file name {stem}.{mid}.csv, the stem being n without a final ".vdb".
ExpectedName(n, mid) ==
    LET stem == IF Len(n) > 4 /\ SubSeq(n, Len(n) - 3, Len(n)) = S_dot \o S_vdb
                THEN SubSeq(n, 1, Len(n) - 4) ELSE n
    IN  stem \o S_dot \o mid \o S_dot \o S_csv

\* {output_path}.{i}.csv for job j.
ExpectedFallback(j, i) ==
    LET p == job[j].output_path
    IN  SubSeq(p, 1, Len(p) - 1) \o <<ExpectedName(p[Len(p)], to_string(i))>>

\* C1: in both dispatch modes, a candidate whose strip_prefix fails is logged
\* and skipped, and every candidate the walk yields after it is still
\* dispatched: once the process has ended, no later candidate is without a job.
C1_SkipOnlyThatCandidate ==
    Exited =>
        \A j \in Jobs : job[j].pc = "skipped" =>
            /\ <<"strip_prefix", 0>> \in job[j].errs
            /\ \A k \in Candidates : k > j => job[k].pc # "none"

\* C2: a failure while re-opening the source, decoding a grid or writing a
\* record does not end the job: a job that has ended after such a failure
\* has ended Done, having gone through every grid name.
C2_GridFailureContained ==
    \A j \in Jobs :
        (job[j].pc \in Terminal /\ job[j].panic \in PerGridFailure) =>
            /\ job[j].pc = "done"
            /\ job[j].i = Len(job[j].grid_names)

\* C3: when the grid-listing pass of one file fails and nothing else does,
\* that job ends without an artifact, every other candidate's job still runs
\* to its end, and the process exits with success.
C3_ListFailureContained ==
    (/\ Exited
     /\ \A j \in Jobs : job[j].panic \in ListFailure \cup {""}
     /\ \A j \in Jobs : job[j].pc # "skipped") =>
        /\ mainpc = "exit_ok"
        /\ \A k \in Candidates : job[k].pc \in Terminal
        /\ \A j \in Jobs : job[j].panic \in ListFailure => job[j].arts = <<>>

\* C4: when creating the primary output file of grid i fails, the error is
\* logged and exactly one more creation is attempted, at
\* {output_path}.{i}.csv; when that succeeds the writer is bound to the
\* fallback file, it receives the header and then the rows of the grid in
\* order, and the job goes on: a job that is Done has one artifact per grid
\* name, the fallback one for each grid whose primary creation failed.
C4_FallbackOnce ==
    \A j \in Jobs :
        LET jb == job[j]
            w == jb.wtr
            E == ExpectedStream(j, jb.i + 1)
        IN  /\ (jb.pc = "fallback") =>
                (<<"create", jb.i>> \in jb.errs /\ jb.ncreate = 1 /\ ~w.open)
            /\ (jb.pc \in {"header", "read", "row"} /\ <<"create", jb.i>> \in jb.errs) =>
                /\ jb.ncreate = 2
                /\ w.open /\ w.path = ExpectedFallback(j, jb.i)
                /\ w.path \in DOMAIN files
                /\ jb.arts[Len(jb.arts)] = w.path
                /\ w.buf = SubSeq(E, w.pos + 1, w.pos + Len(w.buf))
                /\ (jb.pc = "header") => (w.pos + Len(w.buf) = 0)
                /\ (jb.pc = "read") => (w.pos + Len(w.buf) = 1)
                /\ (jb.pc = "row") => (w.pos + Len(w.buf) + Len(jb.it) = Len(E))
            /\ (jb.pc = "done") =>
                /\ Len(jb.arts) = Len(jb.grid_names)
                /\ \A i \in 0..(Len(jb.grid_names) - 1) :
                       <<"create", i>> \in jb.errs => jb.arts[i + 1] = ExpectedFallback(j, i)

\* C4's case: a job is Done after the primary creation of a grid with at
\* least one voxel failed, and the fallback file holds its header and rows.
C4_Witness ==
    \E j \in Jobs :
        /\ job[j].pc = "done" /\ ~job[j].lost
        /\ \E i \in 0..(Len(job[j].grid_names) - 1) :
              /\ <<"create", i>> \in job[j].errs
              /\ Len(ExpectedStream(j, i + 1)) > 1
              /\ ExpectedFallback(j, i) \in DOMAIN files
              /\ files[ExpectedFallback(j, i)] = ExpectedStream(j, i + 1)

\* C5: when the primary and the fallback creation both fail for one grid,
\* only that grid is abandoned: the job still goes through the remaining
\* grid names, and every other candidate still gets its job.
C5_GridAbandonedOnly ==
    \A j \in Jobs :
        (job[j].pc \in Terminal /\ job[j].panic = "create_fallback") =>
            /\ job[j].i = Len(job[j].grid_names)
            /\ Exited => \A k \in Candidates : job[k].pc \in Terminal

\* C6: the parent directory is made before the source is opened and before
\* any output file is created; when that fails, or the output path has no
\* parent, an error is logged and the job ends Aborted, having opened no
\* source and created no artifact; it leaves the batch as it was: the scope
\* holds no panic because of it, and in the sequential mode every candidate
\* is still brought to its end.
C6_ParentDirectoryFirst ==
    /\ \A j \in Jobs :
        LET jb == job[j]
            dirErrs == jb.errs \cap {<<"create_dir_all", 0>>, <<"no_parent", 0>>}
        IN  /\ (jb.opens > 0 \/ jb.arts # <<>> \/ jb.wtr.open \/ jb.rd # "none") =>
                (/\ Len(jb.output_path) > 0
                 /\ SubSeq(jb.output_path, 1, Len(jb.output_path) - 1) \in dirs
                 /\ dirErrs = {})
            /\ (dirErrs # {}) =>
                (/\ jb.pc = "aborted" /\ jb.panic = ""
                 /\ jb.opens = 0 /\ jb.arts = <<>> /\ ~jb.wtr.open /\ jb.rd = "none")
            /\ (jb.pc = "aborted") =>
                (dirErrs = IF Len(jb.output_path) = 0 THEN {<<"no_parent", 0>>}
                           ELSE {<<"create_dir_all", 0>>})
    /\ scope_panic => \E j \in Jobs : job[j].pc = "panicked"
    /\ (Exited /\ \A j \in Jobs : job[j].pc \notin {"panicked", "skipped"}) =>
           (mainpc = "exit_ok" /\ \A k \in Candidates : job[k].pc \in Terminal)

\* C6's case: the process has ended, create_dir_all failed for one file, and
\* a candidate after it was exported.
C6_Witness ==
    /\ Exited
    /\ \E j, k \in Jobs :
          /\ j < k
          /\ <<"create_dir_all", 0>> \in job[j].errs
          /\ job[k].pc = "done" /\ job[k].arts # <<>>

\* C7: no output file exists for a grid whose decoding or writing did not
\* complete: after read_grid or a write failed, the file the writer of that
\* grid had created is not there.
C7_NoArtifactForFailedGrid ==
    \A j \in Jobs :
        job[j].panic \in {"read_grid", "write"} =>
            job[j].arts[Len(job[j].arts)] \notin DOMAIN files

\* C8: under concurrent dispatch, no two jobs ever create the same output
\* file: the output paths of distinct candidates are distinct.
C8_OutputsNeverAlias ==
    args.multithreading =>
        \A j, k \in Jobs :
            j # k => Range(job[j].arts) \cap Range(job[k].arts) = {}

\* C9: a job that is Done, with no I/O failure other than of primary
\* creations, has one output file per entry of the grid list: the files of
\* two entries are never the same file.
C9_OneArtifactPerGrid ==
    \A j \in Jobs :
        (job[j].pc = "done" /\ ~job[j].lost) =>
            /\ Len(job[j].arts) = Len(job[j].grid_names)
            /\ \A a, b \in 1..Len(job[j].arts) : a # b => job[j].arts[a] # job[j].arts[b]

\* C10: for every grid of a job that is Done and whose writes all succeeded,
\* its artifact holds the header row and then the rows of its N entries, in
\* the decoder's order (only the header row when N = 0).
C10_ArtifactIsHeaderAndRows ==
    \A j \in Jobs :
        (job[j].pc = "done" /\ ~job[j].lost) =>
            \A a \in 1..Len(job[j].arts) :
                /\ job[j].arts[a] \in DOMAIN files
                /\ files[job[j].arts[a]] = ExpectedStream(j, a)

\* C11: in every artifact, created under the primary name or under the
\* fallback name, the header is written exactly once and before any data
\* row: a writer is handed the header as its first record and never again,
\* it holds the header before the grid is read and before any row is
\* written, and on disk a header stands in the first row of a file only.
C11_HeaderOnceAndFirst ==
    /\ \A j \in Jobs :
        LET w == job[j].wtr IN
        /\ w.open =>
              \A k \in 1..Len(w.buf) : (w.buf[k] = Header) <=> (w.pos + k = 1)
        /\ job[j].pc = "header" => (w.open /\ w.pos + Len(w.buf) = 0)
        /\ job[j].pc \in {"read", "row"} => (w.open /\ w.pos + Len(w.buf) >= 1)
        /\ job[j].pc = "row" =>
              w.pos + Len(w.buf) =
                  Len(ExpectedStream(j, job[j].i + 1)) - Len(job[j].it)
    /\ \A p \in DOMAIN files :
        \A k \in 1..Len(files[p]) :
            /\ k = 1 => files[p][k] \in {Header, Hole}
            /\ k > 1 => files[p][k] # Header

\* C11 witness: a finished job wrote one grid under its primary name and the
\* next under the fallback name, and each file holds the header, then rows.
C11_Witness ==
    \E j \in Jobs :
        /\ job[j].pc = "done" /\ Len(job[j].arts) = 2
        /\ job[j].arts[2] = ExpectedFallback(j, 1)
        /\ job[j].arts[1] # job[j].arts[2]
        /\ \A a \in 1..2 :
            /\ files[job[j].arts[a]] = ExpectedStream(j, a)
            /\ Len(files[job[j].arts[a]]) > 1

\* C12: a job is dispatched for an entry of the tree if and only if the
\* entry is a file, its extension is vdb, and --recursive is given or the
\* entry is a direct child of the source root; a directory, an entry with
\* another extension and, without --recursive, a file deeper than the root's
\* children never get a job.
C12_DispatchIffVdbFile ==
    \A k \in 1..Len(tree) :
        LET e == tree[k]
            eligible == /\ e.ok /\ ~e.is_dir
                        /\ Extension(e.path) = Some(S_vdb)
                        /\ (args.recursive \/ Depth(e, source_dir) = 1)
            passed == \E j \in Jobs : walk[j] = e /\ j < wi
            dispatched == \E j \in Jobs : walk[j] = e /\ job[j].pc # "none"
        IN  /\ dispatched => eligible
            /\ (eligible /\ (passed \/ wi > Len(walk))) => dispatched

\* C13: when the walk yields an error for an entry, the error is logged,
\* only that entry is skipped and the walk goes on, in both dispatch modes:
\* the step over the entry logs once, moves to the next entry, stays in the
\* loop and touches no job and no file; every candidate the loop reaches
\* after the entry is dispatched, and the loop stops short of a candidate
\* only when a job itself ended the sequential walk.
C13_WalkErrorSkipsOnlyThatEntry ==
    /\ [][(mainpc = "walk" /\ wi <= Len(walk) /\ ~walk[wi].ok /\ wi' # wi) =>
            /\ werrs' = werrs + 1
            /\ wi' = wi + 1
            /\ mainpc' = "walk"
            /\ job' = job /\ files' = files /\ dirs' = dirs
            /\ scope_panic' = scope_panic]_vars
    /\ [](\A e, k \in Jobs :
            (e < k /\ ~walk[e].ok /\ walk[k].ok
                   /\ Extension(walk[k].path) = Some(S_vdb)) =>
                /\ k < wi => job[k].pc # "none"
                /\ (Exited /\ job[k].pc = "none") =>
                      /\ ~args.multithreading
                      /\ \E q \in 1..(k - 1) : job[q].pc \in {"skipped", "panicked"})
    /\ [](werrs = Cardinality({e \in 1..(wi - 1) : ~walk[e].ok}))

\* C13 witness: the sequential walk met an Err, logged it, and the candidate
\* yielded after it was dispatched and ran to its end.
C13_Witness ==
    /\ Exited /\ ~args.multithreading /\ werrs >= 1
    /\ \E e, k \in Jobs : e < k /\ ~walk[e].ok /\ job[k].pc = "done"
                          /\ Len(job[k].arts) > 0

\* The output path of walk item j, a path at or below source_dir.
RefOutput(j) == Join(output_dir, StripPrefix(walk[j].path, source_dir).val)

\* The artifact the grid at index a - 1 of walk item j is exported to when
\* nothing fails.
RefPath(j, a) == WithExtension(RefOutput(j), walk[j].grids[a] \o S_dot \o S_csv)

\* The exports of a run: one per grid of every vdb file at or below
\* source_dir whose output path has a parent.
RefExports ==
    {x \in Jobs \X (1..MaxGrids) :
        LET j == x[1] a == x[2] IN
        /\ walk[j].ok /\ Extension(walk[j].path) = Some(S_vdb)
        /\ StripPrefix(walk[j].path, source_dir).some
        /\ Parent(RefOutput(j)).some
        /\ a <= Len(walk[j].grids)}

\* The files a run in walk order, one grid after the other, leaves behind:
\* under each path the export made last.
RefFiles ==
    [p \in {RefPath(x[1], x[2]) : x \in RefExports} |->
        LET last == CHOOSE x \in RefExports :
                        /\ RefPath(x[1], x[2]) = p
                        /\ \A y \in RefExports : RefPath(y[1], y[2]) = p =>
                              (y[1] < x[1] \/ (y[1] = x[1] /\ y[2] <= x[2]))
        IN  ExpectedStream(last[1], last[2])]

C14_ConcurrentRunsAgree ==
    (Exited /\ faults = MaxFaults /\ args.multithreading
            /\ \A j \in Jobs : job[j].pc # "skipped") => files = RefFiles

\* C14 for sequential dispatch alone, every candidate below source_dir: it
\* holds.
C14_SequentialRunsAgree ==
    (Exited /\ faults = MaxFaults /\ ~args.multithreading
            /\ \A j \in Jobs : job[j].pc # "skipped") => files = RefFiles

\* C15: every candidate the walk yields is consumed by exactly one job: it
\* is dispatched when the loop takes it, never before and never again.
\* Without multithreading at most one job is in progress at any time, it is
\* the job of the entry taken last, and the walk does not advance until it
\* has ended, so jobs run in walk order.  With multithreading every yielded
\* candidate gets its task, and spawning the task for the next candidate
\* never waits for another job.
C15_OneJobPerCandidate ==
    /\ [](\A j \in Jobs :
            job[j].pc # "none" <=>
                (j < wi /\ walk[j].ok /\ Extension(walk[j].path) = Some(S_vdb)))
    /\ [][\A j \in Jobs :
            /\ (job'[j].pc = "strip" /\ job[j].pc # "strip") =>
                  (job[j].pc = "none" /\ j = wi /\ wi' = wi + 1)
            /\ job[j].pc # "none" => job'[j].pc # "none"]_vars
    /\ [](~args.multithreading =>
            /\ Cardinality({j \in Jobs : job[j].pc \in Active}) <= 1
            /\ \A j \in Jobs : job[j].pc \in Active => (j = wi - 1 /\ mainpc = "job")
            /\ mainpc = "job" => job[wi - 1].pc \in Active)
    /\ [][(~args.multithreading /\ wi' # wi) =>
            \A j \in Jobs : job[j].pc \notin Active]_vars
    /\ []((args.multithreading /\ mainpc = "walk" /\ wi <= Len(walk)
             /\ walk[wi].ok /\ Extension(walk[wi].path) = Some(S_vdb))
            => ENABLED WalkSpawn)

\* C15 witness: under multithreading the loop has spawned the task of a
\* second candidate while the task of the first is still in progress.
C15_Witness ==
    /\ args.multithreading
    /\ \E j, k \in Jobs : j < k /\ job[j].pc \in Active \ {"strip"}
                          /\ job[k].pc = "strip"

\* {output_path}.{name of grid i}.csv for job j.
ExpectedPrimary(j, i) ==
    LET p == job[j].output_path
    IN  SubSeq(p, 1, Len(p) - 1) \o <<ExpectedName(p[Len(p)], walk[j].grids[i + 1])>>

\* C16: within one job the grids are processed strictly one at a time, in
\* the order of the grid list: while grid i is in progress the grids before
\* it have had their artifact created and their writer closed, the one
\* writer open is that of grid i and the rows still to come are those of
\* grid i; the job moves on by one grid only, after the last row of grid i
\* has been written and its writer and reader are gone, and only then is the
\* source opened for grid i + 1.
C16_GridsOneAtATime ==
    /\ [](\A j \in Jobs :
            LET jb == job[j] IN
            /\ jb.pc \in {"open", "create", "fallback", "header", "read", "row"} =>
                  /\ jb.grid_names = walk[j].grids
                  /\ jb.i < Len(jb.grid_names)
            /\ jb.pc \in {"open", "create", "fallback"} =>
                  (jb.wtr = NoWriter /\ jb.it = <<>> /\ Len(jb.arts) = jb.i)
            /\ jb.pc = "open" => jb.rd = "none"
            /\ jb.pc \in {"header", "read", "row"} =>
                  /\ jb.wtr.open /\ Len(jb.arts) = jb.i + 1
                  /\ jb.wtr.path = jb.arts[jb.i + 1]
                  /\ jb.wtr.path \in {ExpectedPrimary(j, jb.i), ExpectedFallback(j, jb.i)}
            /\ jb.pc = "row" =>
                  LET g == GridIter(walk[j].path, walk[j].grids[jb.i + 1])
                  IN  jb.it = SubSeq(g, Len(g) - Len(jb.it) + 1, Len(g)))
    /\ [][\A j \in Jobs :
            job'[j].i # job[j].i =>
                /\ job'[j].i = job[j].i + 1
                /\ job[j].pc = "row" /\ job[j].it = <<>>
                /\ job'[j].wtr = NoWriter /\ job'[j].rd = "none"
                /\ job'[j].pc \in {"open", "done"}]_vars

\* C16 witness: a job is about to open the source for its second grid, the
\* first grid's artifact holding the header and all its rows.
C16_Witness ==
    \E j \in Jobs :
        /\ job[j].pc = "open" /\ job[j].i = 1 /\ ~job[j].lost
        /\ files[job[j].arts[1]] = ExpectedStream(j, 1)
        /\ Len(ExpectedStream(j, 1)) > 1

\* C17: a job over a file with n grids opens the source once to list the
\* grids and once more for every grid, n + 1 times when it runs to its end;
\* the handle that lists is released before the first grid's handle is
\* opened, and every grid is read through a handle opened for it alone.
C17_SourceOpenedPerGrid ==
    /\ [](\A j \in Jobs :
            LET jb == job[j] IN
            /\ jb.pc \in {"none", "strip", "mkdir", "list"} =>
                  (jb.opens = 0 /\ jb.rd = "none")
            /\ jb.pc = "names" => (jb.opens = 1 /\ jb.rd = "list")
            /\ jb.pc = "open" => (jb.opens = jb.i + 1 /\ jb.rd = "none")
            /\ jb.pc \in {"create", "fallback", "header", "read", "row"} =>
                  (jb.opens = jb.i + 2 /\ jb.rd = "grid")
            /\ jb.pc = "done" =>
                  (jb.opens = Len(walk[j].grids) + 1 /\ jb.rd = "none"))
    /\ [][\A j \in Jobs :
            /\ job'[j].opens # job[j].opens =>
                  /\ job'[j].opens = job[j].opens + 1
                  /\ job[j].rd = "none" /\ job'[j].rd # "none"
            /\ (job[j].rd # "none" /\ job'[j].rd # job[j].rd) => job'[j].rd = "none"
            /\ (job[j].pc = "read" /\ job'[j].pc = "row") =>
                  job[j].opens = job[j].i + 2]_vars

\* C17 witness: a job over a file with two grids has run to its end without
\* any failure and has opened the source three times.
C17_Witness ==
    \E j \in Jobs :
        /\ job[j].pc = "done" /\ Len(walk[j].grids) = 2 /\ job[j].opens = 3
        /\ job[j].errs = {} /\ ~job[j].lost

\* C18: on every exit path of a grid and of a job the writer and the source
\* handle are released: a job that has not begun, or is before the first
\* open, or between two grids, or in a terminal state (done, aborted,
\* skipped, panicked) holds neither; a writer is open only while one grid is
\* in progress, together with that grid's source handle; and a writer that
\* is released has flushed its buffer to its file, unless that flush failed.
C18_HandlesReleased ==
    /\ [](\A j \in Jobs :
            LET jb == job[j] IN
            /\ jb.pc \in Terminal \cup {"none", "strip", "mkdir", "list", "open"} =>
                  (jb.wtr = NoWriter /\ jb.rd = "none")
            /\ jb.wtr.open => (jb.pc \in {"header", "read", "row"} /\ jb.rd = "grid")
            /\ jb.rd = "list" <=> jb.pc = "names"
            /\ jb.rd = "grid" <=> jb.pc \in {"create", "fallback", "header", "read", "row"})
    /\ [][\A j \in Jobs :
            (job[j].wtr.open /\ ~job'[j].wtr.open) =>
                /\ job'[j].wtr = NoWriter /\ job'[j].rd = "none"
                /\ \/ files' = Flushed(files, job[j].wtr)
                   \/ (files' = files /\ job'[j].lost)]_vars

\* C18 witness: a job whose write failed while it held the writer and the
\* source handle of a grid has panicked and holds neither.
C18_Witness ==
    \E j \in Jobs :
        /\ job[j].pc = "panicked" /\ job[j].panic \in {"write", "read_grid"}
        /\ Len(job[j].arts) >= 1
        /\ job[j].wtr = NoWriter /\ job[j].rd = "none"

\* C19: the rayon scope does not finish and the process does not exit until
\* every job that was spawned has reached a terminal state, under concurrent
\* dispatch in particular, where every candidate of the walk has been
\* spawned by then; and with a finite walk, finite grid lists and finite
\* voxel sequences the batch eventually finishes.
C19_ScopeWaitsAndBatchEnds ==
    /\ [](Exited =>
            /\ \A j \in Jobs : job[j].pc \in Terminal \cup {"none"}
            /\ args.multithreading =>
                  \A j \in Jobs :
                      (walk[j].ok /\ Extension(walk[j].path) = Some(S_vdb))
                          => job[j].pc \in Terminal)
    /\ <>Exited

\* C19 witness: under concurrent dispatch the process has exited after two
\* spawned jobs, one of which exported two grids, both reached their end.
C19_Witness ==
    /\ Exited /\ args.multithreading
    /\ \E j, k \in Jobs : /\ j # k
                          /\ job[j].pc = "done" /\ Len(job[j].arts) = 2
                          /\ job[k].pc \in Terminal

====
